---- MODULE Spec2Model ----
(***************************************************************************)
(* Model of pymodulo's vehicle selection: the incidence table handed over  *)
(* by DataLoader.fetch_data_for_vehicle_selection, the VehicleSelector     *)
(* constructor with its train/test split, the three train() strategies     *)
(* (Greedy, MaxPoints, Random) and test() with metrics.percentage_coverage.*)
(* Model of pymodulo's DataLoader: the MongoDB collection, the insert of   *)
(* the mobility data, the stratum and temporal tagging and the fetch of    *)
(* the incidence table.                                                    *)
(***************************************************************************)
EXTENDS Integers, Sequences, FiniteSets, TLC

(* ------------------------------ bounds -------------------------------- *)
\* the records (documents with both ids) behind one incidence table
MaxRecords == 3
\* the largest num_to_select asked for
MaxK == 3
\* the rows of a mobility frame spread over vehicles, points and times
MaxDocs == 2
\* the rows of a mobility frame of one vehicle at one point
MaxStamps == 3

\* vehicle_id is any int: DataLoader stores int(row['vehicle_id'])
VehicleIds == {-1, 0, 1}
StratumIds == {0, 1}
TemporalIds == {1, 2}
\* before, between and at the end of the temporal ids
SplitTimestamps == {0} \cup TemporalIds
Strategies == {"Greedy", "MaxPoints", "Random"}
MetricNames == {"percentage_coverage", "unsupported_metric"}

(* ------------------------- generic helpers ---------------------------- *)
Range(s) == {s[i] : i \in DOMAIN s}

Max(S) == CHOOSE x \in S : \A y \in S : y <= x

Min(S) == CHOOSE x \in S : \A y \in S : x <= y

\* every order in which the elements of S can be enumerated
Orders(S) == {f \in [1..Cardinality(S) -> S] : \A i, j \in DOMAIN f : f[i] = f[j] => i = j}

\* the elements of S in ascending order
RECURSIVE Ascending(_)
Ascending(S) == IF S = {} THEN <<>> ELSE <<Min(S)>> \o Ascending(S \ {Min(S)})

\* s without its i-th element
RemoveAt(s, i) == [j \in 1..(Len(s) - 1) |-> IF j < i THEN s[j] ELSE s[j + 1]]

\* the elements of order that are in S, in the same relative order
RECURSIVE Restrict(_, _)
Restrict(order, S) ==
    IF Len(order) = 0 THEN <<>>
    ELSE (IF Head(order) \in S THEN <<Head(order)>> ELSE <<>>) \o Restrict(Tail(order), S)

RECURSIVE GCD(_, _)
GCD(a, b) == IF b = 0 THEN a ELSE GCD(b, a % b)

(* -------------------- the incidence table (DataFrame) ------------------ *)
\* a tagged record of the collection: (vehicle_id, stratum_id, temporal_id)
Keys == VehicleIds \X StratumIds \X TemporalIds

\* df.groupby(['vehicle_id','stratum_id','temporal_id']).size().to_frame('count')
GroupBySize(recs) ==
    {[vehicle_id |-> key[1], stratum_id |-> key[2], temporal_id |-> key[3],
      count |-> Cardinality({i \in DOMAIN recs : recs[i] = key})] : key \in Range(recs)}

\* the non-empty tables fetch_data_for_vehicle_selection can return
IncidenceTables ==
    {GroupBySize(recs) : recs \in UNION {[1..n -> Keys] : n \in 1..MaxRecords}}

\* df['stratum_id'].astype(str) + "_" + df['temporal_id'].astype(str):
\* the two decimal numerals joined by "_" is one key per (stratum, temporal) pair
spatiotemporal_segment(row) == <<row.stratum_id, row.temporal_id>>

\* df['vehicle_id'].unique()
unique_vehicle_ids(d) == {row.vehicle_id : row \in d}

\* df[df['vehicle_id'] == vehicle]
rows_of(d, vehicle) == {row \in d : row.vehicle_id = vehicle}

\* set(df_sel['spatiotemporal_segment'].tolist())
segments_of(d, vehicle) == {spatiotemporal_segment(row) : row \in rows_of(d, vehicle)}

\* df['spatiotemporal_segment'].unique()
unique_segments(d) == {spatiotemporal_segment(row) : row \in d}

\* sort_values(ascending=False) of the ids in s by f: pandas leaves the order
\* of equal values to the sort, here the order they have in s
RECURSIVE sort_values_desc(_, _)
sort_values_desc(s, f) ==
    IF Len(s) = 0 THEN <<>>
    ELSE LET m == Max({f[s[i]] : i \in DOMAIN s})
             i == Min({j \in DOMAIN s : f[s[j]] = m})
         IN <<s[i]>> \o sort_values_desc(RemoveAt(s, i), f)

\* s[:n]
head(s, n) == SubSeq(s, 1, IF n < Len(s) THEN n ELSE Len(s))

(* --------------------------- metrics.py -------------------------------- *)
\* the float n / d as an exact fraction in lowest terms (d > 0)
Fraction(n, d) == <<n \div GCD(n, d), d \div GCD(n, d)>>

\* percentage_coverage dividing by the number of rows of the table
percentage_coverage_per_row(selected_vehicles_list, d) ==
    LET selected_vehicles_coverage_set ==
            unique_segments({row \in d : row.vehicle_id \in Range(selected_vehicles_list)})
    IN IF Cardinality(d) = 0
       THEN [raised |-> "ZeroDivisionError", value |-> <<>>]
       ELSE [raised |-> "",
             value |-> Fraction(Cardinality(selected_vehicles_coverage_set) * 100,
                                Cardinality(d))]

\* len(selected_vehicles_coverage_set) / len(all_vehicles_coverage_set) * 100;
\* Python raises ZeroDivisionError when the divisor is 0
percentage_coverage(selected_vehicles_list, d) ==
    LET all_vehicles_coverage_set == unique_segments(d)
        selected_vehicles_coverage_set ==
            unique_segments({row \in d : row.vehicle_id \in Range(selected_vehicles_list)})
    IN IF Cardinality(all_vehicles_coverage_set) = 0
       THEN [raised |-> "ZeroDivisionError", value |-> <<>>]
       ELSE [raised |-> "",
             value |-> Fraction(Cardinality(selected_vehicles_coverage_set) * 100,
                                Cardinality(all_vehicles_coverage_set))]

(* ------------------- GreedyVehicleSelector.py -------------------------- *)
\* candidate_vehicle = -1: the "no candidate yet" marker
NoCandidate == -1

\* dict(df_train['vehicle_id'].value_counts()): vehicle -> number of its rows
value_counts(d) == [vehicle \in unique_vehicle_ids(d) |-> Cardinality(rows_of(d, vehicle))]

\* max(stats.items(), key=operator.itemgetter(1))[0]: the first item of the
\* value_counts() order, which is descending by count; stats_order is the
\* order value_counts() leaves equal counts in
first_vehicle_of(d, stats_order) ==
    LET stats == value_counts(d)
        items == sort_values_desc(Restrict(stats_order, DOMAIN stats), stats)
        m == Max({stats[items[i]] : i \in DOMAIN items})
    IN items[Min({i \in DOMAIN items : stats[items[i]] = m})]

\* the comparison of line 55 with >= for >
improves_or_equals(new_count, candidate_count) == new_count >= candidate_count

\* if new_count > candidate_count
improves(new_count, candidate_count) == new_count > candidate_count

\* if candidate_vehicle > -1
candidate_found(candidate_vehicle) == candidate_vehicle > NoCandidate

\* for vehicle in total_vehicles: ... (one pass over the pool, in pool order)
RECURSIVE scan_pool(_, _, _, _, _)
scan_pool(pool, j, d, current_coverage, cand) ==
    IF j > Len(pool) THEN cand
    ELSE LET vehicle == pool[j]
             sel_vehicle_coverage == segments_of(d, vehicle)
             new_coverage == current_coverage \cup sel_vehicle_coverage
             new_count == Cardinality(new_coverage)
         IN scan_pool(pool, j + 1, d, current_coverage,
                IF improves(new_count, cand.candidate_count)
                THEN [candidate_vehicle |-> vehicle,
                      candidate_coverage |-> new_coverage,
                      candidate_count |-> new_count]
                ELSE cand)

\* for i in range(1, vehicle_count): ...
RECURSIVE greedy_loop(_, _, _, _, _)
greedy_loop(i, vehicle_count, total_vehicles_counts, pool_order, st) ==
    IF i >= vehicle_count THEN st
    ELSE IF ~(i <= total_vehicles_counts)
    THEN greedy_loop(i + 1, vehicle_count, total_vehicles_counts, pool_order, st)
    ELSE LET cand == scan_pool(Restrict(pool_order, st.total_vehicles), 1, st.df_train,
                               st.current_coverage,
                               [candidate_vehicle |-> NoCandidate,
                                candidate_coverage |-> {},
                                candidate_count |-> st.current_count[Len(st.current_count)]])
         IN IF candidate_found(cand.candidate_vehicle)
            THEN greedy_loop(i + 1, vehicle_count, total_vehicles_counts, pool_order,
                     [current_vehicles |-> Append(st.current_vehicles, cand.candidate_vehicle),
                      current_count |-> Append(st.current_count, cand.candidate_count),
                      current_coverage |-> cand.candidate_coverage,
                      iteration_count |-> Append(st.iteration_count, i),
                      df_train |-> {row \in st.df_train : row.vehicle_id /= cand.candidate_vehicle},
                      total_vehicles |-> st.total_vehicles \ {cand.candidate_vehicle}])
            ELSE st

\* __max_coverage_greedy_logic(df_train, vehicle_count); stats_order and
\* pool_order are the orders value_counts() and the set total_vehicles
\* enumerate the vehicles in. max() of an empty stats raises ValueError.
max_coverage_greedy_logic(d, vehicle_count, stats_order, pool_order) ==
    LET total_vehicles == unique_vehicle_ids(d)
        total_vehicles_counts == Cardinality(total_vehicles)
    IN IF total_vehicles = {}
       THEN [raised |-> "ValueError", value |-> <<>>]
       ELSE LET first_vehicle == first_vehicle_of(d, stats_order)
                df_sel == rows_of(d, first_vehicle)
                st == greedy_loop(1, vehicle_count, total_vehicles_counts, pool_order,
                         [current_vehicles |-> <<first_vehicle>>,
                          current_count |-> <<Cardinality(df_sel)>>,
                          current_coverage |-> segments_of(d, first_vehicle),
                          iteration_count |-> <<0>>,
                          df_train |-> {row \in d : row.vehicle_id /= first_vehicle},
                          total_vehicles |-> total_vehicles \ {first_vehicle}])
            IN [raised |-> "",
                value |-> [current_vehicles |-> st.current_vehicles,
                           current_coverage |-> st.current_coverage,
                           current_count |-> st.current_count,
                           iteration_count |-> st.iteration_count]]

(* ------------------ MaxPointsVehicleSelector.py ------------------------ *)
RECURSIVE SumCount(_)
SumCount(rows) ==
    IF rows = {} THEN 0
    ELSE LET row == CHOOSE r \in rows : TRUE IN row.count + SumCount(rows \ {row})

\* df_train.groupby(['vehicle_id']).sum(): vehicle -> total count
groupby_sum(d) == [vehicle \in unique_vehicle_ids(d) |-> SumCount(rows_of(d, vehicle))]

\* sort_values(by=['count'], ascending=False).head(num_to_select).index.tolist();
\* sort_order is the order the sort leaves equal totals in
max_points_train(d, num_to_select, sort_order) ==
    LET totals == groupby_sum(d)
    IN head(sort_values_desc(Restrict(sort_order, DOMAIN totals), totals), num_to_select)

(* -------------------- RandomVehicleSelector.py ------------------------- *)
\* the outcomes of np.random.choice(vehicle_ids, num_to_select, replace=False):
\* ValueError when the sample is larger than the population, else any
\* sequence of num_to_select distinct vehicles; of an empty population numpy
\* returns the empty sample or, up to 1.15, raises ValueError ("a must be
\* non-empty")
random_choice(vehicle_ids, num_to_select) ==
    IF num_to_select > Cardinality(vehicle_ids)
    THEN {[raised |-> "ValueError", value |-> <<>>]}
    ELSE {[raised |-> "", value |-> SubSeq(o, 1, num_to_select)] : o \in Orders(vehicle_ids)}
         \cup (IF vehicle_ids = {}
               THEN {[raised |-> "ValueError", value |-> <<>>]}
               ELSE {})

(* ----------------------- VehicleSelector.py ---------------------------- *)
\* METRICS_LIST: the metrics registered by name
METRICS_LIST == {"percentage_coverage"}

\* the train filter with < for <=
train_partition_strict(d, train_test_split_timestamp) ==
    {row \in d : row.temporal_id < train_test_split_timestamp}

\* self.df[self.df['temporal_id'] <= self.train_test_split_timestamp]
train_partition(d, train_test_split_timestamp) ==
    {row \in d : row.temporal_id <= train_test_split_timestamp}

\* self.df[self.df['temporal_id'] > self.train_test_split_timestamp]
test_partition(d, train_test_split_timestamp) ==
    {row \in d : row.temporal_id > train_test_split_timestamp}

\* if num_to_select > len(df['vehicle_id'].unique()): raise ValueError
too_many_requested(num_to_select, d) == num_to_select > Cardinality(unique_vehicle_ids(d))

(* ----------------------- DataLoader/DataLoader.py ----------------------- *)
\* the points a mobility datum can lie at
Locations == {"p", "q"}
\* unix timestamps of the data, in seconds
Timestamps == {100, 159, 160, 250}
\* what a caller can hand over as temporal_granularity
Granularities == {-1, 0, 60, 100}
\* the vehicles and times of the frames spread over points
LoaderVehicleIds == {0, 1}
LoaderTimestamps == {100, 250}
\* how many strata a stratification has
StratumCounts == {1, 2}

\* the frames of at most n rows drawn from rows
Frames(rows, n) == UNION {[1..m -> rows] : m \in 0..n}

\* the rows of a vehicle mobility frame: vehicle_id, timestamp, and the point
\* (longitude, latitude)
MobilityRows(vehicle_ids, timestamps, locations) ==
    [vehicle_id : vehicle_ids, timestamp : timestamps, location : locations]

\* the document built from a row; stratum_id and temporal_id are fields the
\* document does not have yet: {} is 'no such field', {x} the field with value x
doc_of(row) ==
    [vehicle_id |-> row.vehicle_id, timestamp |-> row.timestamp,
     location |-> row.location, stratum_id |-> {}, temporal_id |-> {}]

docs_of(frame) == [i \in 1..Len(frame) |-> doc_of(frame[i])]

\* _insert_mobility_data without the count_documents guard
insert_mobility_data_unguarded(coll, frame) ==
    IF Len(frame) = 0
    THEN [raised |-> "TypeError", collection |-> coll, value |-> 0, warned |-> FALSE]
    ELSE [raised |-> "", collection |-> coll \o docs_of(frame),
          value |-> Len(frame), warned |-> FALSE]

\* _insert_mobility_data: refuses a collection that holds documents;
\* insert_many raises TypeError on an empty list of documents
insert_mobility_data(coll, frame) ==
    IF Len(coll) > 0
    THEN [raised |-> "ValueError", collection |-> coll, value |-> 0, warned |-> FALSE]
    ELSE IF Len(frame) = 0
    THEN [raised |-> "TypeError", collection |-> coll, value |-> 0, warned |-> FALSE]
    ELSE [raised |-> "", collection |-> coll \o docs_of(frame),
          value |-> Len(frame), warned |-> Len(frame) = 0]

\* SpatialStratification._assign_stratum_id: the i-th feature gets stratum_id i,
\* counted from 0; a geometry is the set of points $geoWithin finds inside it
assign_stratum_id(geometries) ==
    [i \in 1..Len(geometries) |-> [stratum_id |-> i - 1, geometry |-> geometries[i]]]

\* the polygons: each has some of the Locations inside
Geometries == (SUBSET Locations) \ {{}}

\* the GeoJSON features of the stratification objects
Stratifications ==
    {assign_stratum_id(geometries) :
        geometries \in UNION {[1..n -> Geometries] : n \in StratumCounts}}

geo_within(doc, geometry) == doc.location \in geometry

\* $set that leaves a stratum_id already on the document alone
set_stratum_id_if_unset(doc, stratum_id) ==
    IF doc.stratum_id = {} THEN [doc EXCEPT !.stratum_id = {stratum_id}] ELSE doc

\* update_one's {"$set": {"stratum_id": stratum_id}}
set_stratum_id(doc, stratum_id) == [doc EXCEPT !.stratum_id = {stratum_id}]

\* the loop over geojson_data['features'] from the i-th feature on;
\* modified_count counts the documents the $set changed
RECURSIVE scan_strata(_, _, _, _)
scan_strata(features, i, coll, num_updated) ==
    IF i > Len(features)
    THEN [collection |-> coll, num_updated |-> num_updated]
    ELSE LET stratum == features[i]
             updated == [j \in 1..Len(coll) |->
                            IF geo_within(coll[j], stratum.geometry)
                            THEN set_stratum_id(coll[j], stratum.stratum_id)
                            ELSE coll[j]]
             modified_count == Cardinality({j \in 1..Len(coll) : updated[j] /= coll[j]})
         IN scan_strata(features, i + 1, updated, num_updated + modified_count)

compute_stratum_id_and_update_db(coll, features) ==
    IF Len(coll) = 0
    THEN [raised |-> "ValueError", collection |-> coll, value |-> 0, warned |-> FALSE]
    ELSE LET out == scan_strata(features, 1, coll, 0)
         IN [raised |-> "", collection |-> out.collection,
             value |-> out.num_updated, warned |-> out.num_updated = 0]

\* np.arange(start, stop, step) for step /= 0: ceil((stop - start) / step)
\* values start, start + step, ..., none when that number is not positive
arange(start, stop, step) ==
    LET len == IF step > 0
               THEN (stop - start + step - 1) \div step
               ELSE (start - stop - step - 1) \div (0 - step)
    IN [i \in 1..len |-> start + (i - 1) * step]

\* __get_time_segments without the closing boundary end_unixtime
get_time_segments_open(start_unixtime, end_unixtime, interval_length) ==
    LET time_boundaries == arange(start_unixtime, end_unixtime, interval_length)
    IN [i \in 1..(Len(time_boundaries) - 1) |-> <<time_boundaries[i], time_boundaries[i + 1]>>]

\* __get_time_segments: the boundaries are arange's values and end_unixtime
get_time_segments(start_unixtime, end_unixtime, interval_length) ==
    LET time_boundaries == arange(start_unixtime, end_unixtime, interval_length)
                               \o <<end_unixtime>>
    IN [i \in 1..(Len(time_boundaries) - 1) |-> <<time_boundaries[i], time_boundaries[i + 1]>>]

\* the find filter {'$gte': segment_start, '$lt': segment_end}
in_segment(doc, segment) == segment[1] <= doc.timestamp /\ doc.timestamp < segment[2]

\* a temporal_id that is the end of the segment
segment_end_id(segment) == segment[2]

\* temporal_id == start time of the segment the document falls into
segment_temporal_id(segment) == segment[1]

\* the loop over time_segments from the i-th segment on; update_many's
\* modified_count counts the documents the $set changed
RECURSIVE scan_segments(_, _, _, _)
scan_segments(time_segments, i, coll, num_updated) ==
    IF i > Len(time_segments)
    THEN [collection |-> coll, num_updated |-> num_updated]
    ELSE LET segment == time_segments[i]
             updated == [j \in 1..Len(coll) |->
                            IF in_segment(coll[j], segment)
                            THEN [coll[j] EXCEPT !.temporal_id = {segment_temporal_id(segment)}]
                            ELSE coll[j]]
             modified_count == Cardinality({j \in 1..Len(coll) : updated[j] /= coll[j]})
         IN scan_segments(time_segments, i + 1, updated, num_updated + modified_count)

min_time(coll) == Min({coll[j].timestamp : j \in 1..Len(coll)})

max_time(coll) == Max({coll[j].timestamp : j \in 1..Len(coll)})

\* compute_temporal_id_and_update_db; np.arange raises on a step of 0
compute_temporal_id_and_update_db(coll, temporal_granularity) ==
    IF Len(coll) = 0
    THEN [raised |-> "ValueError", collection |-> coll, value |-> 0, warned |-> FALSE]
    ELSE IF temporal_granularity = 0
    THEN [raised |-> "ZeroDivisionError", collection |-> coll, value |-> 0, warned |-> FALSE]
    ELSE LET time_segments == get_time_segments(min_time(coll), max_time(coll) + 1,
                                                temporal_granularity)
             out == scan_segments(time_segments, 1, coll, 0)
         IN [raised |-> "", collection |-> out.collection,
             value |-> out.num_updated, warned |-> out.num_updated = 0]

\* the query filter: both stratum_id and temporal_id $exists
fully_tagged(doc) == doc.stratum_id /= {} /\ doc.temporal_id /= {}

\* the value of a field that exists
field(f) == CHOOSE x \in f : TRUE

\* the projection to vehicle_id, stratum_id, temporal_id
project(doc) == <<doc.vehicle_id, field(doc.stratum_id), field(doc.temporal_id)>>

\* fetch_data_for_vehicle_selection: the table of counts per
\* (vehicle_id, stratum_id, temporal_id) of the documents that match the filter
fetch_data_for_vehicle_selection(coll) ==
    LET docs == SelectSeq(coll, fully_tagged)
    IN IF Len(docs) = 0
       THEN [raised |-> "ValueError", value |-> {}]
       ELSE [raised |-> "", value |-> GroupBySize([i \in 1..Len(docs) |-> project(docs[i])])]

(* ------------------------------ state ---------------------------------- *)
VARIABLES
    df,          \* the incidence table the caller holds
    obj,         \* the selector object, NoSelector before construction
    op,          \* the last call: "none", "init", "train" or "test"
    args,        \* the selection the last call was given (test), else <<>>
    ret,         \* what the last call returned or raised
    greedy_out,  \* what __max_coverage_greedy_logic returned in the last call
    mobility_df, \* the vehicle mobility frame _prep_data read
    collection,  \* the documents of the MongoDB collection, in insertion order
    loader,      \* the DataLoader object, NoLoader before construction
    inserts,     \* how many _insert_mobility_data calls have inserted documents
    warned       \* whether the last call issued warnings.warn

selector_vars == <<df, obj, greedy_out>>

loader_vars == <<mobility_df, collection, loader, inserts, warned>>

vars == <<df, obj, op, args, ret, greedy_out, mobility_df, collection, loader, inserts, warned>>

NoSelector == [class |-> "None"]

NoGreedy == [current_vehicles |-> <<>>, current_coverage |-> {},
             current_count |-> <<>>, iteration_count |-> <<>>]

NoLoader == [class |-> "None"]

\* no loader, an empty collection
NothingLoaded ==
    /\ mobility_df = <<>>
    /\ collection = <<>>
    /\ loader = NoLoader
    /\ inserts = 0
    /\ warned = FALSE

Init ==
    /\ df \in IncidenceTables
    /\ obj = NoSelector
    /\ op = "none"
    /\ args = <<>>
    /\ ret = [raised |-> "", value |-> <<>>]
    /\ greedy_out = NoGreedy
    /\ NothingLoaded

\* VehicleSelector.__init__ (through the subclass constructors)
Construct(class, num_to_select, train_test_split_timestamp, coverage_metric) ==
    /\ obj.class = "None"
    /\ op' = "init"
    /\ args' = <<>>
    /\ greedy_out' = NoGreedy
    /\ df' = df
    /\ UNCHANGED loader_vars
    /\ IF too_many_requested(num_to_select, df) \/ coverage_metric \notin METRICS_LIST
       THEN /\ ret' = [raised |-> "ValueError", value |-> <<>>]
            /\ obj' = obj
       ELSE /\ ret' = [raised |-> "", value |-> <<>>]
            /\ obj' = [class |-> class,
                       num_to_select |-> num_to_select,
                       train_test_split_timestamp |-> train_test_split_timestamp,
                       df |-> df,
                       df_train |-> train_partition(df, train_test_split_timestamp),
                       df_test |-> test_partition(df, train_test_split_timestamp),
                       coverage_metric_function |-> coverage_metric]

\* the orders in which pandas and a Python set can enumerate the vehicles of
\* the training partition
TrainOrders == Orders(unique_vehicle_ids(obj.df_train))

\* GreedyVehicleSelector.train; stats_order is the order value_counts() lists
\* equal counts in, pool_order the order the set total_vehicles is iterated in
TrainGreedy ==
    /\ obj.class = "Greedy"
    /\ \E stats_order \in TrainOrders, pool_order \in TrainOrders :
         LET out == max_coverage_greedy_logic(obj.df_train, obj.num_to_select,
                                              stats_order, pool_order)
         IN /\ greedy_out' = IF out.raised = "" THEN out.value ELSE NoGreedy
            /\ ret' = IF out.raised = ""
                      THEN [raised |-> "", value |-> out.value.current_vehicles]
                      ELSE out
    /\ op' = "train"
    /\ args' = <<>>
    /\ UNCHANGED <<df, obj>>
    /\ UNCHANGED loader_vars

\* MaxPointsVehicleSelector.train; sort_order is the order sort_values()
\* leaves equal totals in
TrainMaxPoints ==
    /\ obj.class = "MaxPoints"
    /\ \E sort_order \in TrainOrders :
         ret' = [raised |-> "",
                 value |-> max_points_train(obj.df_train, obj.num_to_select, sort_order)]
    /\ op' = "train"
    /\ args' = <<>>
    /\ greedy_out' = NoGreedy
    /\ UNCHANGED <<df, obj>>
    /\ UNCHANGED loader_vars

\* RandomVehicleSelector.train
TrainRandom ==
    /\ obj.class = "Random"
    /\ ret' \in random_choice(unique_vehicle_ids(obj.df_train), obj.num_to_select)
    /\ op' = "train"
    /\ args' = <<>>
    /\ greedy_out' = NoGreedy
    /\ UNCHANGED <<df, obj>>
    /\ UNCHANGED loader_vars

\* the selections test() is called with: none, every vehicle of the test
\* partition, every vehicle of the table, and what train() just returned
TestInputs ==
    {<<>>, Ascending(unique_vehicle_ids(obj.df_test)), Ascending(unique_vehicle_ids(obj.df))}
    \cup (IF op = "train" /\ ret.raised = "" THEN {ret.value} ELSE {})

\* VehicleSelector.test
Test ==
    /\ obj.class /= "None"
    /\ \E selected_vehicles \in TestInputs :
         LET coverage == percentage_coverage(selected_vehicles, obj.df_test)
         IN /\ ret' = IF coverage.raised = ""
                      THEN [raised |-> "",
                            value |-> [selected_vehicles |-> selected_vehicles,
                                       coverage |-> coverage.value]]
                      ELSE coverage
            /\ args' = selected_vehicles
    /\ op' = "test"
    /\ greedy_out' = NoGreedy
    /\ UNCHANGED <<df, obj>>
    /\ UNCHANGED loader_vars

Next ==
    \/ \E class \in Strategies, num_to_select \in 0..MaxK,
          train_test_split_timestamp \in SplitTimestamps, coverage_metric \in MetricNames :
            Construct(class, num_to_select, train_test_split_timestamp, coverage_metric)
    \/ TrainGreedy
    \/ TrainMaxPoints
    \/ TrainRandom
    \/ Test

Spec == Init /\ [][Next]_vars

(* ------------------------ the loader's operations ----------------------- *)
\* DataLoader.__init__: keeps temporal_granularity as given
NewLoader ==
    /\ \E temporal_granularity \in Granularities :
         /\ loader' = [class |-> "DataLoader", temporal_granularity |-> temporal_granularity]
         /\ args' = <<temporal_granularity>>
    /\ op' = "DataLoader"
    /\ ret' = [raised |-> "", value |-> <<>>]
    /\ warned' = FALSE
    /\ UNCHANGED <<mobility_df, collection, inserts>>
    /\ UNCHANGED selector_vars

\* DataLoader._insert_mobility_data(df) with the frame _prep_data read
InsertMobilityData ==
    /\ loader.class = "DataLoader"
    /\ LET out == insert_mobility_data(collection, mobility_df)
       IN /\ collection' = out.collection
          /\ inserts' = IF out.raised = "" THEN inserts + 1 ELSE inserts
          /\ ret' = [raised |-> out.raised, value |-> out.value]
          /\ warned' = out.warned
    /\ op' = "insert"
    /\ args' = <<>>
    /\ UNCHANGED <<mobility_df, loader>>
    /\ UNCHANGED selector_vars

\* DataLoader.compute_stratum_id_and_update_db(stratification_obj)
ComputeStratumId ==
    /\ loader.class = "DataLoader"
    /\ \E features \in Stratifications :
         LET out == compute_stratum_id_and_update_db(collection, features)
         IN /\ collection' = out.collection
            /\ ret' = [raised |-> out.raised, value |-> out.value]
            /\ warned' = out.warned
            /\ args' = <<features>>
    /\ op' = "compute_stratum_id"
    /\ UNCHANGED <<mobility_df, loader, inserts>>
    /\ UNCHANGED selector_vars

\* DataLoader.compute_temporal_id_and_update_db()
ComputeTemporalId ==
    /\ loader.class = "DataLoader"
    /\ LET out == compute_temporal_id_and_update_db(collection, loader.temporal_granularity)
       IN /\ collection' = out.collection
          /\ ret' = [raised |-> out.raised, value |-> out.value]
          /\ warned' = out.warned
    /\ op' = "compute_temporal_id"
    /\ args' = <<>>
    /\ UNCHANGED <<mobility_df, loader, inserts>>
    /\ UNCHANGED selector_vars

\* DataLoader.fetch_data_for_vehicle_selection()
FetchDataForVehicleSelection ==
    /\ loader.class = "DataLoader"
    /\ ret' = fetch_data_for_vehicle_selection(collection)
    /\ warned' = FALSE
    /\ op' = "fetch_data_for_vehicle_selection"
    /\ args' = <<>>
    /\ UNCHANGED <<mobility_df, collection, loader, inserts>>
    /\ UNCHANGED selector_vars

\* the loader of a pipeline that constructs one
FirstLoader == loader = NoLoader /\ NewLoader

NextLoader ==
    \/ FirstLoader
    \/ InsertMobilityData
    \/ ComputeStratumId
    \/ ComputeTemporalId
    \/ FetchDataForVehicleSelection

\* no selector, no table fetched yet, no loader, an empty collection
NothingSelected ==
    /\ df = {}
    /\ obj = NoSelector
    /\ greedy_out = NoGreedy
    /\ op = "none"
    /\ args = <<>>
    /\ ret = [raised |-> "", value |-> <<>>]
    /\ collection = <<>>
    /\ loader = NoLoader
    /\ inserts = 0
    /\ warned = FALSE

\* the mobility data of two vehicles at two points and two times
InitLoader ==
    /\ NothingSelected
    /\ mobility_df \in Frames(MobilityRows(LoaderVehicleIds, LoaderTimestamps, Locations), MaxDocs)

SpecLoader == InitLoader /\ [][NextLoader]_vars

\* the mobility data of one vehicle at one point, at any of the Timestamps
InitTemporal ==
    /\ NothingSelected
    /\ mobility_df \in Frames(MobilityRows({0}, Timestamps, {"p"}), MaxStamps)

\* the loader's operations that read or write temporal ids
NextTemporal ==
    \/ NewLoader
    \/ InsertMobilityData
    \/ ComputeTemporalId

SpecTemporal == InitTemporal /\ [][NextTemporal]_vars


(* ------------------------------ claims --------------------------------- *)
\* the segments covered by the vehicles vs in table d
Covered(d, vs) == UNION {segments_of(d, v) : v \in vs}

\* the first n elements of s, as a set
Picked(s, n) == {s[i] : i \in 1..n}

\* a Greedy train() has just returned a selection
GreedyReturned == op = "train" /\ obj.class = "Greedy" /\ ret.raised = ""

\* |covered \cup segments(v)| after the first n picks of selection s
UnionSize(d, s, n, v) == Cardinality(Covered(d, Picked(s, n)) \cup segments_of(d, v))

\* the vehicles still in the pool after the first n picks of selection s
Remaining(d, s, n) == unique_vehicle_ids(d) \ Picked(s, n)

\* C1: every Greedy pick after the first is a remaining agent that maximizes
\* |covered \cup segments(agent)|, and among the maximizers it is the one with
\* the smallest agent_id.
C1_PickMaximizesSmallestId ==
    GreedyReturned =>
        \A j \in 2..Len(ret.value) :
            LET d == obj.df_train
                remaining == Remaining(d, ret.value, j - 1)
                best == Max({UnionSize(d, ret.value, j - 1, v) : v \in remaining})
            IN /\ ret.value[j] \in remaining
               /\ UnionSize(d, ret.value, j - 1, ret.value[j]) = best
               /\ ret.value[j] = Min({v \in remaining : UnionSize(d, ret.value, j - 1, v) = best})

\* C2: the first Greedy pick is the agent with the most distinct segments in
\* the training table, the smallest agent_id among those with the most; this is
\* the agent the general step picks from covered = {}.
C2_FirstPickLargestSmallestId ==
    GreedyReturned =>
        LET d == obj.df_train
            agents == unique_vehicle_ids(d)
            most == Max({Cardinality(segments_of(d, v)) : v \in agents})
            general == Min({v \in agents : UnionSize(d, <<>>, 0, v) = most})
        IN /\ ret.value[1] = Min({v \in agents : Cardinality(segments_of(d, v)) = most})
           /\ ret.value[1] = general

\* after n picks of selection s no remaining agent has a segment outside the
\* covered set
NoGain(d, s, n) ==
    \A v \in Remaining(d, s, n) : segments_of(d, v) \subseteq Covered(d, Picked(s, n))

\* C3: for k >= 1 Greedy train() does not raise; it returns fewer than k agents
\* exactly when at some step no remaining agent has a segment outside the
\* covered set, and exactly k agents otherwise.
C3_ShortExactlyWhenNoGain ==
    (op = "train" /\ obj.class = "Greedy" /\ obj.num_to_select >= 1) =>
        /\ ret.raised = ""
        /\ Len(ret.value) <= obj.num_to_select
        /\ (Len(ret.value) < obj.num_to_select)
             <=> (\E n \in 0..Len(ret.value) :
                     n < obj.num_to_select /\ NoGain(obj.df_train, ret.value, n))

\* the most segments any k vehicles of table d cover together
BestCoverage(d, k) ==
    Max({Cardinality(Covered(d, S)) :
            S \in {T \in SUBSET unique_vehicle_ids(d) : Cardinality(T) = k}})

\* C4: for 1 <= k <= number of training agents, the segments covered by the
\* Greedy selection are at least (1 - 1/e) of the most any k agents cover;
\* 63212/100000 is just below 1 - 1/e.
C4_ApproximationRatio ==
    (op = "train" /\ obj.class = "Greedy" /\ obj.num_to_select >= 1
        /\ obj.num_to_select <= Cardinality(unique_vehicle_ids(obj.df_train))) =>
        /\ ret.raised = ""
        /\ Cardinality(Covered(obj.df_train, Range(ret.value))) * 100000
             >= 63212 * BestCoverage(obj.df_train, obj.num_to_select)

\* C5: the recorded current_count strictly increases with every appended
\* agent (so it never decreases), and each recorded value is the number of
\* segments covered by the agents selected up to that step.
C5_CurrentCountMonotone ==
    GreedyReturned =>
        LET cc == greedy_out.current_count
            cv == greedy_out.current_vehicles
        IN /\ Len(cc) = Len(cv)
           /\ \A j \in 1..(Len(cc) - 1) : cc[j + 1] > cc[j]
           /\ \A j \in 1..Len(cc) :
                 cc[j] = Cardinality(Covered(obj.df_train, Picked(cv, j)))

C5_Witness ==
    /\ GreedyReturned
    /\ Len(greedy_out.current_count) >= 2
    /\ Len(greedy_out.current_count) < obj.num_to_select

\* C6: a second Greedy train() on the same object returns the same sequence
\* as the first, whatever order the pool is enumerated in.
C6_TrainDeterministic ==
    [][(op = "train" /\ op' = "train" /\ obj.class = "Greedy"
          /\ ret.raised = "" /\ ret'.raised = "") => ret'.value = ret.value]_vars

\* C7: train() with k greater than the number of distinct agents of the
\* training table fails with ValueError, for every strategy.
C7_TooManyFails ==
    (op = "train"
        /\ obj.num_to_select > Cardinality(unique_vehicle_ids(obj.df_train))) =>
        ret.raised = "ValueError"

\* C8: the sequence train() returns has length at most k, for every strategy
\* and every accepted k >= 0.
C8_LengthAtMostK ==
    (op = "train" /\ ret.raised = "") => Len(ret.value) <= obj.num_to_select

\* percentage_coverage returned v
CoverageIs(v) == ret.raised = "" /\ ret.value.coverage = v

\* C9 as stated: on every test table the list of all its agents scores 100.0
\* and the empty list scores 0.0.
C9_BoundaryEveryTable ==
    op = "test" =>
        /\ Range(args) = unique_vehicle_ids(obj.df_test) => CoverageIs(<<100, 1>>)
        /\ args = <<>> => CoverageIs(<<0, 1>>)

\* C9 amended: on every test table with at least one row the list of all its
\* agents scores 100.0 and the empty list scores 0.0.
C9_BoundaryNonEmptyTable ==
    (op = "test" /\ obj.df_test /= {}) =>
        /\ Range(args) = unique_vehicle_ids(obj.df_test) => CoverageIs(<<100, 1>>)
        /\ args = <<>> => CoverageIs(<<0, 1>>)

C9_Witness ==
    /\ op = "test"
    /\ Cardinality(obj.df_test) >= 2
    /\ Cardinality(unique_vehicle_ids(obj.df_test)) >= 2
    /\ Range(args) = unique_vehicle_ids(obj.df_test)
    /\ CoverageIs(<<100, 1>>)

\* C10: test() on an empty test partition returns a coverage value (0 or NaN)
\* instead of raising.
C10_EmptyTestReturns ==
    (op = "test" /\ obj.df_test = {}) => ret.raised = ""

\* the vehicles of table d by decreasing total count, equal totals by
\* ascending vehicle_id
ByTotalThenId(d) == sort_values_desc(Ascending(unique_vehicle_ids(d)), groupby_sum(d))

\* C16: MaxPoints train() returns the k training agents with the largest total
\* count, by decreasing total, and of two agents with equal totals the one with
\* the smaller agent_id comes first and is preferred at the cut-off.
C16_TopCountSmallestIdFirst ==
    (op = "train" /\ obj.class = "MaxPoints" /\ ret.raised = "") =>
        ret.value = head(ByTotalThenId(obj.df_train), obj.num_to_select)

\* the partitions of a constructed selector split its table at the timestamp
SplitPartitions ==
    obj.class /= "None" =>
        /\ obj.df = df
        /\ obj.df_train \cap obj.df_test = {}
        /\ obj.df_train \cup obj.df_test = obj.df
        /\ \A row \in obj.df :
              /\ row \in obj.df_train <=> row.temporal_id <= obj.train_test_split_timestamp
              /\ row \in obj.df_test <=> row.temporal_id > obj.train_test_split_timestamp

\* a call of train() or test() leaves the selector's table and partitions as
\* they were
CallKeepsFrames ==
    (obj.class /= "None" /\ op' \in {"train", "test"}) => (obj' = obj /\ df' = df)

\* C18: the train and test partitions built at construction are disjoint and
\* together hold every row of the table, a row being in train exactly when its
\* temporal_id <= split timestamp and in test exactly when it is greater;
\* train() and test() change neither the partitions nor the table.
C18_SplitAndFrame == [](SplitPartitions) /\ [][CallKeepsFrames]_vars

C18_Witness ==
    /\ op = "train"
    /\ obj.df_train /= {}
    /\ obj.df_test /= {}
    /\ \E row \in obj.df_train : row.temporal_id = obj.train_test_split_timestamp

\* compute_temporal_id_and_update_db has returned, for a granularity above 0
TemporalComputed ==
    /\ op = "compute_temporal_id"
    /\ ret.raised = ""
    /\ loader.temporal_granularity > 0

\* the segments compute_temporal_id_and_update_db builds for the collection
TimeSegments ==
    get_time_segments(min_time(collection), max_time(collection) + 1,
                      loader.temporal_granularity)

\* the segments that hold timestamp t
SegmentsHolding(segments, t) ==
    {i \in 1..Len(segments) : in_segment([timestamp |-> t], segments[i])}

\* C11: for min_ts <= max_ts and a granularity above 0 the time segments are
\* contiguous and non-overlapping, start at min_ts and end at max_ts + 1;
\* every timestamp from min_ts to max_ts lies in exactly one segment and
\* max_ts lies in the last one.
C11_SegmentsPartitionRange ==
    TemporalComputed =>
        LET segments == TimeSegments
            min_ts == min_time(collection)
            max_ts == max_time(collection)
        IN /\ Len(segments) >= 1
           /\ segments[1][1] = min_ts
           /\ segments[Len(segments)][2] = max_ts + 1
           /\ \A i \in 1..Len(segments) : segments[i][1] < segments[i][2]
           /\ \A i \in 1..(Len(segments) - 1) : segments[i][2] = segments[i + 1][1]
           /\ \A t \in min_ts..max_ts : Cardinality(SegmentsHolding(segments, t)) = 1
           /\ SegmentsHolding(segments, max_ts) = {Len(segments)}

\* three segments, the last one cut short by max_ts + 1
C11_Witness ==
    /\ TemporalComputed
    /\ Len(TimeSegments) = 3
    /\ TimeSegments[3][2] - TimeSegments[3][1] < loader.temporal_granularity
    /\ \E j \in 1..Len(collection) : collection[j].timestamp = TimeSegments[3][2] - 1

\* min_ts + ((ts - min_ts) // g) * g
DirectDivision(ts, min_ts, g) == min_ts + ((ts - min_ts) \div g) * g

\* C12: for a granularity g above 0 the temporal_id the segment-by-segment
\* scan writes to a record with timestamp ts is min_ts + ((ts - min_ts) // g) * g;
\* for the range [100, 250] and g = 100 the segments are [100,200) and
\* [200,251) and timestamp 250 gets temporal_id 200.
C12_ScanEqualsDivision ==
    /\ TemporalComputed =>
          \A j \in 1..Len(collection) :
              collection[j].temporal_id =
                  {DirectDivision(collection[j].timestamp, min_time(collection),
                                  loader.temporal_granularity)}
    /\ (/\ TemporalComputed
        /\ loader.temporal_granularity = 100
        /\ min_time(collection) = 100
        /\ max_time(collection) = 250) =>
          /\ TimeSegments = <<<<100, 200>>, <<200, 251>>>>
          /\ \A j \in 1..Len(collection) :
                collection[j].timestamp = 250 => collection[j].temporal_id = {200}

\* the scenario: range [100, 250], granularity 100, a record at 250 and one
\* in the middle of the first segment
C12_Witness ==
    /\ TemporalComputed
    /\ loader.temporal_granularity = 100
    /\ min_time(collection) = 100
    /\ \E j \in 1..Len(collection) : collection[j].timestamp = 250
    /\ \E j \in 1..Len(collection) :
          collection[j].timestamp = 160 /\ collection[j].temporal_id = {100}

\* C13: a granularity of 0 or less fails with a validation error when the
\* loader is constructed; the loader never goes on to build an empty segment
\* list and never leaves a record without a temporal_id.
C13_NonPositiveGranularityRejected ==
    /\ (op = "DataLoader" /\ args[1] <= 0) => ret.raised /= ""
    /\ loader.class = "DataLoader" => loader.temporal_granularity > 0
    /\ (op = "compute_temporal_id" /\ ret.raised = "") =>
          /\ Len(TimeSegments) >= 1
          /\ \A j \in 1..Len(collection) : collection[j].temporal_id /= {}

\* compute_stratum_id_and_update_db has returned; args[1] are the features
StratumComputed == op = "compute_stratum_id" /\ ret.raised = ""

\* the positions, in stratum order, of the strata that contain the document
Containing(features, doc) ==
    {i \in 1..Len(features) : geo_within(doc, features[i].geometry)}

FullyTagged == {j \in 1..Len(collection) : fully_tagged(collection[j])}

\* the (vehicle_id, stratum_id, temporal_id) triple of a row of the table
Triple(row) == <<row.vehicle_id, row.stratum_id, row.temporal_id>>

\* the table has one row per triple of the fully tagged documents, with the
\* number of those documents as count
GroupsFullyTagged(table) ==
    /\ \A row \in table :
          /\ \E j \in FullyTagged : project(collection[j]) = Triple(row)
          /\ row.count = Cardinality({j \in FullyTagged : project(collection[j]) = Triple(row)})
    /\ \A j \in FullyTagged :
          Cardinality({row \in table : Triple(row) = project(collection[j])}) = 1
    /\ SumCount(table) = Cardinality(FullyTagged)

\* C15: for every set of stored records fetch_data_for_vehicle_selection
\* returns a table with exactly one row per (vehicle_id, stratum_id,
\* temporal_id) triple of the records that carry both ids, the count being the
\* number of such records; records lacking an id contribute to no row, so the
\* counts sum to the number of fully tagged records.
C15_TableGroupsFullyTagged ==
    op = "fetch_data_for_vehicle_selection" =>
        /\ ret.raised = ""
        /\ GroupsFullyTagged(ret.value)

\* C17: a step with zero results (no record tagged by a compute call, an
\* aggregation over no fully tagged records) reports a warning or an explicit
\* result and does not abort with an exception.
C17_ZeroResultsNotFatal ==
    /\ (op \in {"compute_stratum_id", "compute_temporal_id"}
            /\ ret.raised = "" /\ ret.value = 0) => warned
    /\ (op = "fetch_data_for_vehicle_selection" /\ FullyTagged = {}) => ret.raised = ""

\* an insert into a collection that holds documents raises and changes nothing
InsertGuarded ==
    (op' = "insert" /\ Len(collection) > 0) =>
        (ret'.raised /= "" /\ collection' = collection)

\* a compute call on an empty collection raises and writes nothing
ComputeGuarded ==
    (op' \in {"compute_stratum_id", "compute_temporal_id"} /\ Len(collection) = 0) =>
        (ret'.raised /= "" /\ collection' = collection)

\* a document without its stratum_id and temporal_id
Untagged(doc) == [doc EXCEPT !.stratum_id = {}, !.temporal_id = {}]

\* the documents are those of the one insert that succeeded
OneInsert ==
    /\ inserts <= 1
    /\ Len(collection) > 0 =>
          /\ inserts = 1
          /\ [j \in 1..Len(collection) |-> Untagged(collection[j])] = docs_of(mobility_df)

\* C19: in any sequence of loader operations on one collection, an insert into
\* a collection that holds documents raises and leaves it unchanged, the two
\* compute calls raise on an empty collection without writing; so stratum_id
\* and temporal_id are only written to the documents of the one successful
\* insert.
C19_GuardedInsertAndCompute ==
    [][InsertGuarded /\ ComputeGuarded]_vars /\ [](OneInsert)

\* a second insert was refused while tagged documents were in the collection
C19_Witness ==
    /\ op = "insert"
    /\ ret.raised = "ValueError"
    /\ \E j \in 1..Len(collection) : fully_tagged(collection[j])
====
